---- MODULE Spec2Model ----
(***************************************************************************)
(* Model of the GitHub Repository Assistant plugin                         *)
(* (src/implementation.js): the entry point answer_repository_question,    *)
(* the three metadata calls of getRepositoryInfo, the question classifier, *)
(* the three answer generators and the suggestion generator.               *)
(*                                                                         *)
(* Strings the code inspects character by character (the question, the     *)
(* owner/repo names, the search query) are sequences of one-character      *)
(* strings, so that toLowerCase, includes and replace are computed.        *)
(* Strings the code only tests for truthiness or interpolates are atoms.   *)
(* A rendered text is the sequence of its interpolated pieces.             *)
(***************************************************************************)
EXTENDS Integers, Sequences, FiniteSets, TLC

\* ------------------------------------------------------------------ bounds
\* number of fragments a generated question is concatenated from
MaxFrags == 2
\* number of items the code search may return (at most per_page)
MaxHits == 2
\* number of topic names the topics call may return
MaxTopics == 1
\* open_issues_count ranges over IssueThreshold +/- IssueSpread
IssueSpread == 1

\* ------------------------------------------------------- program constants
\* per_page of the code search (implementation.js:153)
PerPage == 5
\* open-issue advisory threshold (implementation.js:220)
IssueThreshold == 20

\* ------------------------------------------------------------ JS values
Undefined == "<undefined>"
Null == "<null>"

\* JavaScript ToBoolean on a string-or-absent value
Truthy(v) == v \notin {Undefined, Null, ""}

\* JavaScript ToString of a string-or-absent value inside a template literal
ToStr(v) == IF v = Null THEN "null" ELSE IF v = Undefined THEN "undefined" ELSE v

\* ------------------------------------------------------- character strings
UpperChars == <<"A", "B", "C", "D", "E", "F", "G", "H", "I", "J", "K", "L", "M", "N", "O", "P", "Q", "R", "S", "T", "U", "V", "W", "X", "Y", "Z">>

LowerChars == <<"a", "b", "c", "d", "e", "f", "g", "h", "i", "j", "k", "l", "m", "n", "o", "p", "q", "r", "s", "t", "u", "v", "w", "x", "y", "z">>

DigitChars == <<"0", "1", "2", "3", "4", "5", "6", "7", "8", "9">>

Range(s) == {s[i] : i \in DOMAIN s}

\* the lower-case letter of each upper-case letter
LowerOf == [c \in Range(UpperChars) |-> LowerChars[CHOOSE i \in DOMAIN UpperChars : UpperChars[i] = c]]

LowerChar(c) == IF c \in DOMAIN LowerOf THEN LowerOf[c] ELSE c

\* String.prototype.toLowerCase
toLowerCase(s) == [i \in 1..Len(s) |-> LowerChar(s[i])]

\* String.prototype.includes
includes(s, kw) == \E i \in 1..(Len(s) - Len(kw) + 1) : SubSeq(s, i, i + Len(kw) - 1) = kw

\* the regular-expression classes \w and \s
WordChars == Range(UpperChars) \cup Range(LowerChars) \cup Range(DigitChars) \cup {"_"}

IsWordChar(c) == c \in WordChars

IsSpaceChar(c) == c \in {" ", "\t", "\n"}

\* question.replace(/[^\w\s]/g, ' ')
stripPunctuation(s) == [i \in 1..Len(s) |-> IF IsWordChar(s[i]) \/ IsSpaceChar(s[i]) THEN s[i] ELSE " "]

\* Array.prototype.join on a sequence of atoms, as a sequence of pieces
RECURSIVE join(_, _)
join(xs, sep) == IF Len(xs) = 0 THEN <<>> ELSE IF Len(xs) = 1 THEN <<xs[1]>> ELSE <<xs[1], sep>> \o join(Tail(xs), sep)

\* Array.prototype.some over a keyword list
some(keywords, question) == \E k \in DOMAIN keywords : includes(question, keywords[k])

\* --------------------------------------------------------------- keywords
Kw_how == <<"h", "o", "w">>
Kw_implement == <<"i", "m", "p", "l", "e", "m", "e", "n", "t">>
Kw_code == <<"c", "o", "d", "e">>
Kw_function == <<"f", "u", "n", "c", "t", "i", "o", "n">>
Kw_class == <<"c", "l", "a", "s", "s">>
Kw_method == <<"m", "e", "t", "h", "o", "d">>
Kw_many == <<"m", "a", "n", "y">>
Kw_count == <<"c", "o", "u", "n", "t">>
Kw_size == <<"s", "i", "z", "e">>
Kw_number == <<"n", "u", "m", "b", "e", "r">>
Kw_statistics == <<"s", "t", "a", "t", "i", "s", "t", "i", "c", "s">>
Kw_about == <<"a", "b", "o", "u", "t">>
Kw_language == <<"l", "a", "n", "g", "u", "a", "g", "e">>
Kw_popular == <<"p", "o", "p", "u", "l", "a", "r">>
Kw_stars == <<"s", "t", "a", "r", "s">>
Kw_issue == <<"i", "s", "s", "u", "e">>

technicalKeywords == <<Kw_how, Kw_implement, Kw_code, Kw_function, Kw_class, Kw_method>>

statisticsKeywords == <<Kw_many, Kw_count, Kw_size, Kw_number, Kw_statistics>>

\* --------------------------------------------------------- the classifier
analyzeQuestionType_StatisticsFirst(question) == IF some(statisticsKeywords, toLowerCase(question)) THEN "statistics" ELSE IF some(technicalKeywords, toLowerCase(question)) THEN "technical" ELSE "general"

analyzeQuestionType(question) == IF some(technicalKeywords, toLowerCase(question)) THEN "technical" ELSE IF some(statisticsKeywords, toLowerCase(question)) THEN "statistics" ELSE "general"

\* the case of the switch in generateAnswer that a question type selects
switchCase(questionType) == IF questionType \in {"general", "technical", "statistics"} THEN questionType ELSE "default"

\* ------------------------------------------------------ answer generators
generateGeneralAnswer(repoInfo, question) == IF includes(question, Kw_about) THEN <<"This repository is ", (IF Truthy(repoInfo.description) THEN repoInfo.description ELSE "a project"), " written primarily in ", ToStr(repoInfo.language), ". ">> \o (IF Truthy(repoInfo.homepage) THEN <<"You can find more information at ", repoInfo.homepage, ".">> ELSE <<"">>) \o <<" ">> \o (IF Len(repoInfo.topics) > 0 THEN <<"It's tagged with the following topics: ">> \o join(repoInfo.topics, ", ") \o <<".">> ELSE <<"">>) ELSE <<"I found some general information about the repository: ", ToStr(repoInfo.description)>>

\* Object.keys(repoInfo.languages): the language names, in insertion order
languageNames(repoInfo) == [i \in 1..Len(repoInfo.languages) |-> repoInfo.languages[i].name]

\* new Date(iso).toLocaleDateString() in the en-US locale
toLocaleDateString(d) == <<ToString(d.month), "/", ToString(d.day), "/", ToString(d.year)>>

generateStatisticsAnswer(repoInfo, question) == IF includes(question, Kw_language) THEN <<"The repository uses ", ToString(Len(repoInfo.languages)), " languages: ">> \o join(languageNames(repoInfo), ", ") ELSE IF includes(question, Kw_popular) \/ includes(question, Kw_stars) THEN <<"The repository has ", ToString(repoInfo.stargazers_count), " stars and ", ToString(repoInfo.forks_count), " forks">> ELSE IF includes(question, Kw_issue) THEN <<"There are currently ", ToString(repoInfo.open_issues_count), " open issues">> ELSE <<"Repository statistics:\n- Size: ", ToString(repoInfo.size), "KB\n- Stars: ", ToString(repoInfo.stargazers_count), "\n- Forks: ", ToString(repoInfo.forks_count), "\n- Open Issues: ", ToString(repoInfo.open_issues_count), "\n- Created: ">> \o toLocaleDateString(repoInfo.created_at) \o <<"\n- Last Updated: ">> \o toLocaleDateString(repoInfo.updated_at)

\* searchResults.items.map(item => ({name, path, url: item.html_url}))
mapFiles(items) == [i \in 1..Len(items) |-> [name |-> items[i].name, path |-> items[i].path, url |-> items[i].html_url]]

RECURSIVE fileLines(_)
fileLines(files) == IF Len(files) = 0 THEN <<>> ELSE <<"- ", files[1].path, " (", files[1].url, ")">> \o (IF Len(files) > 1 THEN <<"\n">> ELSE <<>>) \o fileLines(Tail(files))

CouldNotFindText == <<"I could not find any relevant code files for your technical question.">>

\* the text of findTechnicalAnswer, from the mapped files
technicalText(files) == IF Len(files) > 0 THEN <<"I found some relevant files that might help answer your question:\n\n">> \o fileLines(files) ELSE CouldNotFindText

\* the q parameter of octokit.search.code
searchQuery_NameOnly(repoInfo, question) == stripPunctuation(question) \o <<" ", "r", "e", "p", "o", ":">> \o repoInfo.name

searchQuery(repoInfo, question) == stripPunctuation(question) \o <<" ", "r", "e", "p", "o", ":">> \o repoInfo.full_name

\* --------------------------------------------------- suggestion generator
Advisory1 == "Add a repository description to help users understand the project better"
Advisory2 == "Consider adding a homepage or enabling GitHub Pages"
Advisory3 == "Add repository topics to improve discoverability"
Advisory4 == "Consider addressing some open issues to improve repository health"

generateSuggestions_AtLeastThreshold(repoInfo, question, context) == (IF ~Truthy(repoInfo.description) THEN <<Advisory1>> ELSE <<>>) \o (IF ~Truthy(repoInfo.homepage) /\ ~repoInfo.has_pages THEN <<Advisory2>> ELSE <<>>) \o (IF Len(repoInfo.topics) = 0 THEN <<Advisory3>> ELSE <<>>) \o (IF repoInfo.open_issues_count >= IssueThreshold THEN <<Advisory4>> ELSE <<>>)

generateSuggestions(repoInfo, question, context) == (IF ~Truthy(repoInfo.description) THEN <<Advisory1>> ELSE <<>>) \o (IF ~Truthy(repoInfo.homepage) /\ ~repoInfo.has_pages THEN <<Advisory2>> ELSE <<>>) \o (IF Len(repoInfo.topics) = 0 THEN <<Advisory3>> ELSE <<>>) \o (IF repoInfo.open_issues_count > IssueThreshold THEN <<Advisory4>> ELSE <<>>)

\* the suggestions field of generateAnswer: filled only for a truthy context
answerSuggestions_Always(repoInfo, question, context) == generateSuggestions(repoInfo, question, context)

answerSuggestions(repoInfo, question, context) == IF Truthy(context) THEN generateSuggestions(repoInfo, question, context) ELSE <<>>

\* ------------------------------------------------------------ input data
Owner1 == <<"a", "c", "m", "e">>
Repo1 == <<"t", "o", "o", "l">>
Name2 == <<"T", "o", "o", "l">>
FullName1 == <<"a", "c", "m", "e", "/", "t", "o", "o", "l">>
FullName2 == <<"A", "c", "m", "e", "/", "T", "o", "o", "l">>

\* the example questions of README.md, lines 24-39
Q_ReadmeGeneral == <<"W", "h", "a", "t", " ", "i", "s", " ", "t", "h", "e", " ", "o", "w", "n", "e", "r", "/", "r", "e", "p", "o", " ", "r", "e", "p", "o", "s", "i", "t", "o", "r", "y", " ", "a", "b", "o", "u", "t", "?">>
Q_ReadmeTechnical1 == <<"H", "o", "w", " ", "i", "s", " ", "f", "e", "a", "t", "u", "r", "e", " ", "X", " ", "i", "m", "p", "l", "e", "m", "e", "n", "t", "e", "d", " ", "i", "n", " ", "o", "w", "n", "e", "r", "/", "r", "e", "p", "o", "?">>
Q_ReadmeTechnical2 == <<"W", "h", "e", "r", "e", " ", "c", "a", "n", " ", "I", " ", "f", "i", "n", "d", " ", "t", "h", "e", " ", "m", "a", "i", "n", " ", "f", "u", "n", "c", "t", "i", "o", "n", " ", "i", "n", " ", "o", "w", "n", "e", "r", "/", "r", "e", "p", "o", "?">>
Q_ReadmeStatistics1 == <<"H", "o", "w", " ", "m", "a", "n", "y", " ", "s", "t", "a", "r", "s", " ", "d", "o", "e", "s", " ", "o", "w", "n", "e", "r", "/", "r", "e", "p", "o", " ", "h", "a", "v", "e", "?">>
Q_ReadmeStatistics2 == <<"W", "h", "a", "t", " ", "l", "a", "n", "g", "u", "a", "g", "e", "s", " ", "a", "r", "e", " ", "u", "s", "e", "d", " ", "i", "n", " ", "o", "w", "n", "e", "r", "/", "r", "e", "p", "o", "?">>
Q_ReadmeStatistics1b == <<"H", "o", "w", " ", "m", "a", "n", "y", " ", "s", "t", "a", "r", "s", " ", "d", "o", "e", "s", " ", "a", "c", "m", "e", "/", "t", "o", "o", "l", " ", "h", "a", "v", "e", "?">>
Q_ReadmeStatistics2b == <<"W", "h", "a", "t", " ", "l", "a", "n", "g", "u", "a", "g", "e", "s", " ", "a", "r", "e", " ", "u", "s", "e", "d", " ", "i", "n", " ", "a", "c", "m", "e", "/", "t", "o", "o", "l", "?">>

\* further questions: statistics with and without capitals, and a general one
Q_CountStars == <<"C", "o", "u", "n", "t", " ", "t", "h", "e", " ", "S", "t", "a", "r", "s">>
Q_countstars == <<"c", "o", "u", "n", "t", " ", "t", "h", "e", " ", "s", "t", "a", "r", "s">>
Q_Size == <<"s", "i", "z", "e", "?">>
Q_Topics == <<"W", "h", "i", "c", "h", " ", "t", "o", "p", "i", "c", "s", "?">>

ReadmeStatisticsQuestions == {Q_ReadmeStatistics1, Q_ReadmeStatistics2, Q_ReadmeStatistics1b, Q_ReadmeStatistics2b}

MainQuestions == {Q_ReadmeGeneral, Q_ReadmeTechnical1, Q_ReadmeTechnical2, Q_CountStars, Q_countstars, Q_Size, Q_Topics} \cup ReadmeStatisticsQuestions

\* fragments that generated questions are concatenated from: the keywords,
\* some of them capitalised, one of them split in two, and filler
Fragments == {Kw_how, <<"H", "o", "w">>, <<"h", "o">>, <<"w">>, Kw_implement, Kw_code, Kw_function, Kw_class, Kw_method, Kw_many, Kw_count, <<"C", "o", "u", "n", "t">>, Kw_size, Kw_number, Kw_statistics, Kw_language, <<"L", "a", "n", "g", "u", "a", "g", "e">>, Kw_stars, <<"S", "t", "a", "r", "s">>, Kw_popular, <<"P", "o", "p", "u", "l", "a", "r">>, Kw_issue, <<"I", "s", "s", "u", "e">>, Kw_about, <<" ">>, <<"?">>}

RECURSIVE Concatenations(_)
Concatenations(n) == IF n = 0 THEN {<<>>} ELSE Concatenations(n - 1) \cup {q \o f : q \in Concatenations(n - 1), f \in Fragments}

Questions == Concatenations(MaxFrags)

Tokens == {Undefined, "", "ghp_token"}

Contexts == {Undefined, "", "for a code review", "for onboarding"}

ErrorMessages == {<<"Not Found">>, <<"Bad credentials">>}

Date1 == [year |-> 2023, month |-> 1, day |-> 15]
Date2 == [year |-> 2024, month |-> 6, day |-> 2]

IssueCounts == (IssueThreshold - IssueSpread)..(IssueThreshold + IssueSpread)

\* responses of GET /repos/{owner}/{repo}
RepoDatas == {[name |-> fn[1], full_name |-> fn[2], description |-> d, homepage |-> h, has_pages |-> hp, language |-> "Go", topics |-> <<"stale">>, size |-> 120, stargazers_count |-> 42, forks_count |-> 7, open_issues_count |-> n, created_at |-> Date1, updated_at |-> Date2] : fn \in {<<Repo1, FullName1>>, <<Name2, FullName2>>}, d \in {Null, "", "A test tool"}, h \in {Null, "https://acme.example"}, hp \in BOOLEAN, n \in IssueCounts}

\* responses of GET /repos/{owner}/{repo}/languages, in key order
LanguagesDatas == {<<>>, <<[name |-> "Go", bytes |-> 9000], [name |-> "Shell", bytes |-> 100]>>}

TopicPool == <<"cli", "tooling", "testing">>

\* responses of GET /repos/{owner}/{repo}/topics
TopicsDatas == {[names |-> SubSeq(TopicPool, 1, n)] : n \in 0..MaxTopics}

ItemPool == <<[name |-> "main.js", path |-> "src/main.js", html_url |-> "https://github.example/acme/tool/blob/main/src/main.js", sha |-> "a1"], [name |-> "util.js", path |-> "src/util.js", html_url |-> "https://github.example/acme/tool/blob/main/src/util.js", sha |-> "b2"], [name |-> "cli.js", path |-> "bin/cli.js", html_url |-> "https://github.example/acme/tool/blob/main/bin/cli.js", sha |-> "c3"], [name |-> "a.js", path |-> "lib/a.js", html_url |-> "https://github.example/acme/tool/blob/main/lib/a.js", sha |-> "d4"], [name |-> "b.js", path |-> "lib/b.js", html_url |-> "https://github.example/acme/tool/blob/main/lib/b.js", sha |-> "e5"]>>

Min(a, b) == IF a < b THEN a ELSE b

\* responses of GET /search/code: at most per_page items
SearchDatas == {[items |-> SubSeq(ItemPool, 1, n)] : n \in 0..Min(MaxHits, PerPage)}

\* ---------------------------------------------------------------- state
VARIABLES pc, params, userSettings, repoData, languages, topics, repoInfo, questionType, searchResults, calls, outcome

vars == <<pc, params, userSettings, repoData, languages, topics, repoInfo, questionType, searchResults, calls, outcome>>

NoRepoData == [name |-> <<>>, full_name |-> <<>>, description |-> Undefined, homepage |-> Undefined, has_pages |-> FALSE, language |-> Undefined, topics |-> <<>>, size |-> 0, stargazers_count |-> 0, forks_count |-> 0, open_issues_count |-> 0, created_at |-> Date1, updated_at |-> Date1]

\* { ...repoData, languages, topics: topics.names }
mergeRepoInfo(rd, langs, tps) == [languages |-> langs, topics |-> tps.names] @@ rd

NoRepoInfo == mergeRepoInfo(NoRepoData, <<>>, [names |-> <<>>])

EmptyAnswer == [text |-> <<"">>, relatedFiles |-> <<>>, suggestions |-> <<>>]

Pending == [kind |-> "pending", message |-> <<>>, answer |-> EmptyAnswer]

Thrown(message) == [kind |-> "error", message |-> message, answer |-> EmptyAnswer]

Returned(answer) == [kind |-> "answer", message |-> <<>>, answer |-> answer]

\* the owner/repo pair a metadata call is issued for
repoArg == params.owner \o <<"/">> \o params.repo

\* one entry of the log of external calls: the call, its argument, whether
\* it resolved, and the message it rejected with
Call(name, arg, ok, error) == [name |-> name, arg |-> arg, ok |-> ok, error |-> error]

\* !githubToken
tokenMissing_UndefinedOnly(githubToken) == githubToken = Undefined

tokenMissing(githubToken) == ~Truthy(githubToken)

\* the message of the error thrown by the catch clause
wrapError_Rethrow(message) == message

wrapError(message) == <<"Failed to answer question: ">> \o message

\* where control goes when an awaited call rejects: out of the try block
afterRejection_Continue(next) == next

afterRejection(next) == "done"

\* the case of the switch that awaits the code search
awaitsSearch_Always(type) == TRUE

awaitsSearch(type) == switchCase(type) = "technical"

\* ------------------------------------------------------------- actions
\* answer_repository_question up to its first await: the credential check
\* and the construction of the client
answer_repository_question ==
    /\ pc = "start"
    /\ IF tokenMissing(userSettings.githubToken)
         THEN /\ outcome' = [kind |-> "error", message |-> <<"GitHub token is required">>, answer |-> EmptyAnswer]
              /\ pc' = "done"
         ELSE /\ outcome' = outcome
              /\ pc' = "repos.get"
    /\ UNCHANGED <<params, userSettings, repoData, languages, topics, repoInfo, questionType, searchResults, calls>>

\* await octokit.repos.get({owner, repo})
repos_get ==
    /\ pc = "repos.get"
    /\ \/ \E data \in RepoDatas :
            /\ calls' = Append(calls, Call("repos.get", repoArg, TRUE, <<>>))
            /\ repoData' = data
            /\ pc' = "repos.listLanguages"
            /\ outcome' = outcome
       \/ \E m \in ErrorMessages :
            /\ calls' = Append(calls, Call("repos.get", repoArg, FALSE, m))
            /\ repoData' = repoData
            /\ pc' = afterRejection("repos.listLanguages")
            /\ outcome' = Thrown(wrapError(m))
    /\ UNCHANGED <<params, userSettings, languages, topics, repoInfo, questionType, searchResults>>

\* await octokit.repos.listLanguages({owner, repo})
repos_listLanguages ==
    /\ pc = "repos.listLanguages"
    /\ \/ \E data \in LanguagesDatas :
            /\ calls' = Append(calls, Call("repos.listLanguages", repoArg, TRUE, <<>>))
            /\ languages' = data
            /\ pc' = "repos.getAllTopics"
            /\ outcome' = outcome
       \/ \E m \in ErrorMessages :
            /\ calls' = Append(calls, Call("repos.listLanguages", repoArg, FALSE, m))
            /\ languages' = languages
            /\ pc' = afterRejection("repos.getAllTopics")
            /\ outcome' = Thrown(wrapError(m))
    /\ UNCHANGED <<params, userSettings, repoData, topics, repoInfo, questionType, searchResults>>

\* await octokit.repos.getAllTopics({owner, repo}), then the return of
\* getRepositoryInfo and the assignment of repoInfo
repos_getAllTopics ==
    /\ pc = "repos.getAllTopics"
    /\ \/ \E data \in TopicsDatas :
            /\ calls' = Append(calls, Call("repos.getAllTopics", repoArg, TRUE, <<>>))
            /\ topics' = data
            /\ repoInfo' = mergeRepoInfo(repoData, languages, data)
            /\ pc' = "generateAnswer"
            /\ outcome' = outcome
       \/ \E m \in ErrorMessages :
            /\ calls' = Append(calls, Call("repos.getAllTopics", repoArg, FALSE, m))
            /\ topics' = topics
            /\ repoInfo' = repoInfo
            /\ pc' = afterRejection("generateAnswer")
            /\ outcome' = Thrown(wrapError(m))
    /\ UNCHANGED <<params, userSettings, repoData, languages, questionType, searchResults>>

\* the text of the synchronous cases of the switch
caseText(type, info, question) == IF switchCase(type) = "general" THEN generateGeneralAnswer(info, question) ELSE IF switchCase(type) = "statistics" THEN generateStatisticsAnswer(info, question) ELSE <<"I apologize, but I cannot understand the question type.">>

\* generateAnswer up to its await: classification and, in the cases without
\* an await, the whole function and the return to the caller
generateAnswer ==
    /\ pc = "generateAnswer"
    /\ questionType' = analyzeQuestionType(params.question)
    /\ IF awaitsSearch(questionType')
         THEN /\ pc' = "search.code"
              /\ outcome' = outcome
         ELSE /\ pc' = "done"
              /\ outcome' = Returned([text |-> caseText(questionType', repoInfo, params.question), relatedFiles |-> <<>>, suggestions |-> answerSuggestions(repoInfo, params.question, params.context)])
    /\ UNCHANGED <<params, userSettings, repoData, languages, topics, repoInfo, searchResults, calls>>

\* await octokit.search.code({q, per_page: 5}), then the rest of
\* findTechnicalAnswer and of generateAnswer
search_code ==
    /\ pc = "search.code"
    /\ \/ \E data \in SearchDatas :
            /\ calls' = Append(calls, Call("search.code", searchQuery(repoInfo, params.question), TRUE, <<>>))
            /\ searchResults' = data
            /\ pc' = "done"
            /\ outcome' = Returned([text |-> technicalText(mapFiles(data.items)), relatedFiles |-> mapFiles(data.items), suggestions |-> answerSuggestions(repoInfo, params.question, params.context)])
       \/ \E m \in ErrorMessages :
            /\ calls' = Append(calls, Call("search.code", searchQuery(repoInfo, params.question), FALSE, m))
            /\ searchResults' = searchResults
            /\ pc' = afterRejection("done")
            /\ outcome' = Thrown(wrapError(m))
    /\ UNCHANGED <<params, userSettings, repoData, languages, topics, repoInfo, questionType>>

\* ------------------------------------------------------- specifications
\* a request as the host hands it to answer_repository_question
Init ==
    /\ pc = "start"
    /\ params \in [owner : {Owner1}, repo : {Repo1}, question : MainQuestions, context : Contexts]
    /\ userSettings \in [githubToken : Tokens]
    /\ repoData = NoRepoData
    /\ languages = <<>>
    /\ topics = [names |-> <<>>]
    /\ repoInfo = NoRepoInfo
    /\ questionType = "unset"
    /\ searchResults = [items |-> <<>>]
    /\ calls = <<>>
    /\ outcome = Pending

Next == answer_repository_question \/ repos_get \/ repos_listLanguages \/ repos_getAllTopics \/ generateAnswer \/ search_code

Spec == Init /\ [][Next]_vars

\* the two repositories generateAnswer is exercised on: one with nothing
\* filled in and many open issues, one complete
GenRepoDatas == {rd \in RepoDatas : rd.full_name = FullName1 /\ ((rd.description = Null /\ rd.homepage = Null /\ ~rd.has_pages /\ rd.open_issues_count = IssueThreshold + 1) \/ (rd.description = "A test tool" /\ rd.homepage # Null /\ rd.has_pages /\ rd.open_issues_count = IssueThreshold))}

\* the state in which answer_repository_question calls generateAnswer:
\* credential present, the three metadata calls answered
InitGenerate ==
    /\ pc = "generateAnswer"
    /\ params \in [owner : {Owner1}, repo : {Repo1}, question : Questions, context : {Undefined, "for a code review"}]
    /\ userSettings = [githubToken |-> "ghp_token"]
    /\ repoData \in GenRepoDatas
    /\ languages = <<[name |-> "Go", bytes |-> 9000], [name |-> "Shell", bytes |-> 100]>>
    /\ topics = [names |-> IF repoData.description = Null THEN <<>> ELSE <<"cli">>]
    /\ repoInfo = mergeRepoInfo(repoData, languages, topics)
    /\ questionType = "unset"
    /\ searchResults = [items |-> <<>>]
    /\ calls = <<Call("repos.get", repoArg, TRUE, <<>>), Call("repos.listLanguages", repoArg, TRUE, <<>>), Call("repos.getAllTopics", repoArg, TRUE, <<>>)>>
    /\ outcome = Pending

NextGenerate == generateAnswer \/ search_code

SpecGenerate == InitGenerate /\ [][NextGenerate]_vars

\* ------------------------------------------------------------ properties
\* the question contains kw in some letter case
ContainsIgnoringCase(q, kw) == LET lq == toLowerCase(q) IN \E i \in 1..Len(q) : (i + Len(kw) - 1 <= Len(q)) /\ (\A k \in 1..Len(kw) : lq[i + k - 1] = kw[k])

MentionsTechnical(q) == \E kw \in {Kw_how, Kw_implement, Kw_code, Kw_function, Kw_class, Kw_method} : ContainsIgnoringCase(q, kw)

MentionsStatistics(q) == \E kw \in {Kw_many, Kw_count, Kw_size, Kw_number, Kw_statistics} : ContainsIgnoringCase(q, kw)

ExpectedType(q) == IF MentionsTechnical(q) THEN "technical" ELSE IF MentionsStatistics(q) THEN "statistics" ELSE "general"

CallNames == {calls[i].name : i \in DOMAIN calls}

MetadataCalls == {"repos.get", "repos.listLanguages", "repos.getAllTopics"}

CredentialAbsent == userSettings.githubToken \in {Undefined, Null, ""}

ContextAbsent == params.context \in {Undefined, Null, ""}

\* C1: with an absent or empty githubToken the request can only end in the
\* error 'GitHub token is required', and no external call is ever logged,
\* neither when it fails nor in any later state.
C1_MissingCredentialNoCalls ==
    CredentialAbsent =>
        /\ calls = <<>>
        /\ pc \in {"start", "done"}
        /\ (pc = "done" => (outcome.kind = "error" /\ outcome.message = <<"GitHub token is required">>))

C1_Witness == userSettings.githubToken = "" /\ pc = "done" /\ outcome.kind = "error" /\ calls = <<>>

\* C2: with a credential, a call that rejected with message m ends the
\* request in an error whose message is "Failed to answer question: "
\* followed by m, and no answer is returned.
C2_FailureIsWrapped ==
    \A i \in DOMAIN calls :
        (~calls[i].ok) =>
            /\ ~CredentialAbsent
            /\ pc = "done"
            /\ outcome.kind = "error"
            /\ outcome.message = <<"Failed to answer question: ">> \o calls[i].error
            /\ outcome.answer = EmptyAnswer

C2_Witness == pc = "done" /\ Len(calls) = 4 /\ calls[4].name = "search.code" /\ ~calls[4].ok /\ calls[4].error = <<"Bad credentials">> /\ outcome.kind = "error"

C4_NoContextNoSuggestions == (outcome.kind = "answer" /\ ContextAbsent) => (outcome.answer.suggestions = <<>>)

C4_Witness == outcome.kind = "answer" /\ params.context = "" /\ repoInfo.description = Null /\ repoInfo.homepage = Null /\ ~repoInfo.has_pages /\ repoInfo.topics = <<>> /\ repoInfo.open_issues_count > 20 /\ outcome.answer.suggestions = <<>>

AdvisoryOrder == <<Advisory1, Advisory2, Advisory3, Advisory4>>

AdvisoryApplies(a) ==
    \/ (a = Advisory1 /\ repoInfo.description \in {Undefined, Null, ""})
    \/ (a = Advisory2 /\ repoInfo.homepage \in {Undefined, Null, ""} /\ repoInfo.has_pages = FALSE)
    \/ (a = Advisory3 /\ Len(repoInfo.topics) = 0)
    \/ (a = Advisory4 /\ repoInfo.open_issues_count > 20)

\* C5: when suggestions are generated (the context is present) they are
\* exactly the advisories whose condition holds of the repository, each
\* once, in the fixed order; exactly 20 open issues give no advisory.
C5_ExactAdvisories == (outcome.kind = "answer" /\ ~ContextAbsent) => (outcome.answer.suggestions = SelectSeq(AdvisoryOrder, AdvisoryApplies))

C5_Witness == outcome.kind = "answer" /\ ~ContextAbsent /\ repoInfo.open_issues_count = 20 /\ repoInfo.homepage = Null /\ repoInfo.has_pages /\ repoInfo.description = "" /\ Len(repoInfo.topics) > 0 /\ outcome.answer.suggestions = <<Advisory1>>

\* C6: a returned answer has related files only for a technical question
\* whose search returned a hit; a technical question with no hit gets the
\* fixed 'could not find' text and no related files.
C6_RelatedFiles ==
    (outcome.kind = "answer") =>
        /\ (outcome.answer.relatedFiles # <<>>) => (ExpectedType(params.question) = "technical" /\ Len(searchResults.items) >= 1)
        /\ (ExpectedType(params.question) = "technical" /\ Len(searchResults.items) = 0) => (outcome.answer.text = <<"I could not find any relevant code files for your technical question.">> /\ outcome.answer.relatedFiles = <<>>)

C6_Witness == outcome.kind = "answer" /\ questionType = "technical" /\ "search.code" \in CallNames /\ Len(searchResults.items) = 0 /\ outcome.answer.relatedFiles = <<>>

\* C7: each external call is logged at most once; only the last logged call
\* can have failed; after a failed repository call no languages or topics
\* call exists, after any failed metadata call no search call exists, and
\* a failed call means the request has ended in an error.
C7_NoCallAfterFailure ==
    /\ \A i, j \in DOMAIN calls : (calls[i].name = calls[j].name) => (i = j)
    /\ \A i \in DOMAIN calls :
        (~calls[i].ok) =>
            /\ i = Len(calls)
            /\ pc = "done"
            /\ outcome.kind = "error"
            /\ (calls[i].name = "repos.get") => (CallNames = {"repos.get"})
            /\ (calls[i].name \in MetadataCalls) => ("search.code" \notin CallNames)

C7_Witness == pc = "done" /\ Len(calls) = 2 /\ calls[1].ok /\ calls[2].name = "repos.listLanguages" /\ ~calls[2].ok

\* C8: the two Statistics Questions of the README are classified as
\* statistics and answered without a code-search call.
C8_ReadmeStatisticsQuestions == (params.question \in ReadmeStatisticsQuestions /\ questionType # "unset") => (questionType = "statistics" /\ pc # "search.code" /\ "search.code" \notin CallNames)

ExpectedStatisticsOpening(q) == IF ContainsIgnoringCase(q, Kw_language) THEN "The repository uses " ELSE IF ContainsIgnoringCase(q, Kw_popular) \/ ContainsIgnoringCase(q, Kw_stars) THEN "The repository has " ELSE IF ContainsIgnoringCase(q, Kw_issue) THEN "There are currently " ELSE "Repository statistics:\n- Size: "

\* C9: the answer to a statistics question is the variant selected by the
\* first keyword test that the lower-cased question passes, so capitals in
\* the question do not change the variant.
C9_StatisticsVariantIgnoresCase == (outcome.kind = "answer" /\ questionType = "statistics") => (outcome.answer.text[1] = ExpectedStatisticsOpening(params.question))

IsSuffix(suffix, s) == Len(suffix) <= Len(s) /\ SubSeq(s, Len(s) - Len(suffix) + 1, Len(s)) = suffix

\* C10: a code-search call is logged only for a technical question, as the
\* fourth call after the three successful metadata calls, with a query
\* that ends in "repo:" and the full_name the repository call returned; an
\* answer is returned after exactly three calls (general, statistics) or
\* exactly four with the search last (technical).
C10_SearchLastAndScoped ==
    /\ \A i \in DOMAIN calls :
        (calls[i].name = "search.code") =>
            /\ ExpectedType(params.question) = "technical"
            /\ i = 4
            /\ {calls[j].name : j \in 1..3} = MetadataCalls
            /\ \A j \in 1..3 : calls[j].ok
            /\ IsSuffix(<<"r", "e", "p", "o", ":">> \o repoData.full_name, calls[i].arg)
    /\ (outcome.kind = "answer") =>
            /\ \A i \in DOMAIN calls : calls[i].ok
            /\ IF ExpectedType(params.question) = "technical" THEN (Len(calls) = 4 /\ calls[4].name = "search.code") ELSE (Len(calls) = 3 /\ CallNames = MetadataCalls)

C10_Witness == outcome.kind = "answer" /\ Len(calls) = 4 /\ calls[4].name = "search.code" /\ repoData.full_name = FullName2 /\ params.question = Q_ReadmeTechnical1

====
